---- MODULE Spec2Model ----
(***************************************************************************)
(* A state-machine model of src/fans.c, the grblHAL fans plugin: the       *)
(* module's statics, the host tables it hooks into, and one action per     *)
(* handler the host can call.                                              *)
(*                                                                         *)
(* Representation.                                                         *)
(*  - Bit sets (fans_on, fans_linked, spindle_link) are sets of bit        *)
(*    positions: bit_true/bit_false/bit_istrue are union, difference and   *)
(*    membership.                                                          *)
(*  - A float is an integer number of tenths (P word, setting value, off   *)
(*    delay): isintf(v) is v % 10 = 0 and the cast (uint8_t)v is v \div 10.*)
(*  - Function pointers are the strings "NULL", "prev" (whatever the host  *)
(*    or an earlier plugin had installed) and "fans" (this file's handler).*)
(*  - n_ports (line 65) is the number of digital output ports.  No         *)
(*    statement of fans.c stores to it, so a build of the file as it       *)
(*    stands keeps it 0 and skips everything behind if(n_ports).  Init     *)
(*    draws it from 0..MaxPorts: 0 is the file as it stands, the other     *)
(*    values exercise the code behind if(n_ports) and the handlers that    *)
(*    fan_setup installs.                                                  *)
(*  - The host's delayed-task queue is the number of pending fan_off       *)
(*    entries: task_add_delayed appends one entry, task_delete removes the *)
(*    first matching entry.                                                *)
(***************************************************************************)
EXTENDS Integers, Sequences, FiniteSets, TLC

\* ---------------------------------------------------------------- constants

MaxFans == 4

NoPort == 255

MaxPorts == 2

MaxTasks == 2

MaxSpindles == 2

MaxEdits == 2

FanIndex == 0 .. (MaxFans - 1)

Ports == 0 .. (MaxPorts - 1)

Spindles == 1 .. MaxSpindles

Byte(x) == x % 256

\* Off delays for fan 0, in tenths of a minute.
Delays == {0, 15}

\* fan_spindle_set_state: assigned only in the commented-out body of
\* spindle_enumerate, so it keeps its initial value.
fan_spindle_set_state == "NULL"

VARIABLES
    FANS_ENABLE,                    \* build-time number of fans, 1..4
    n_ports, n_fans, fans_on, fans_linked,
    fan_setting,                    \* fan_settings_t: the settings as edited and stored
    fans,                           \* fan_settings_t: the ports and link mask in effect
    nvs_address,                    \* 0: no storage slot
    user_mcode, driver_reset, on_realtime_report,
    on_unknown_accessory_override, on_program_completed,
    on_report_options, on_spindle_select, on_spindle_set_state,
    grbl,                           \* the host's hook table (grbl.* and hal.driver_reset)
    set_state,                      \* spindle -> its set_state pointer
    nvs,                            \* storage: [valid, image]
    claimed,                        \* host: output ports claimed so far
    port_level,                     \* host: level last written to each port, -1: never
    fan_off_tasks,                  \* host: pending delayed fan_off tasks
    fg_tasks,                       \* host: queued foreground warnings
    report_fan,                     \* sys.report.fan
    phase,                          \* "static", "registered", "disabled", "running", "hung"
    call,                           \* the last operation: Call(op, a, r)
    chained,                        \* calls the last operation made to saved handlers
    edits                           \* settings changes counted against MaxEdits

vars == << FANS_ENABLE, n_ports, n_fans, fans_on, fans_linked, fan_setting, fans,
           nvs_address, user_mcode, driver_reset, on_realtime_report,
           on_unknown_accessory_override, on_program_completed,
           on_report_options, on_spindle_select, on_spindle_set_state,
           grbl, set_state, nvs, claimed, port_level, fan_off_tasks, fg_tasks,
           report_fan, phase, call, chained, edits >>

\* The statics that no handler writes after startup.
hooks == << FANS_ENABLE, n_ports, n_fans, nvs_address, user_mcode, driver_reset,
            on_realtime_report, on_unknown_accessory_override,
            on_program_completed, on_report_options, on_spindle_select,
            grbl, claimed, fg_tasks >>

config == << hooks, edits >>

settings == << fan_setting, fans, nvs >>

spindle_hooks == << on_spindle_set_state, set_state >>

\* ------------------------------------------------------------- fan state

\* The part of the state fan_set_state and its callers work on.
Cur ==
    [ fans_on |-> fans_on, fans_linked |-> fans_linked,
      fan_off_tasks |-> fan_off_tasks, report_fan |-> report_fan,
      port_level |-> port_level ]

Commit(s) ==
    /\ fans_on' = s.fans_on
    /\ fans_linked' = s.fans_linked
    /\ fan_off_tasks' = s.fan_off_tasks
    /\ report_fan' = s.report_fan
    /\ port_level' = s.port_level

fan_state == << fans_on, fans_linked, fan_off_tasks, report_fan, port_level >>

\* task_delete(fan_off, NULL): the host removes the first matching entry.
task_delete(s) ==
    [s EXCEPT !.fan_off_tasks = IF @ > 0 THEN @ - 1 ELSE 0]

\* task_add_delayed(fan_off, NULL, ms): the host appends an entry.
task_add_delayed(s) ==
    [s EXCEPT !.fan_off_tasks = @ + 1]

\* hal.port.digital_out(port, on)
digital_out(s, port, on) ==
    IF port \in DOMAIN s.port_level
    THEN [s EXCEPT !.port_level[port] = IF on THEN 1 ELSE 0]
    ELSE s

\* fan_get_state, for fan in 0..3 (the bounds of port[4]).
get_state(s, fan) ==
    fans.port[fan] # NoPort /\ fan \in s.fans_on

fan_get_state(fan) == get_state(Cur, fan)

\* A fan_set_state that leaves the on bit set when it switches a fan off.
fan_set_state_KeepsOnBit(s, fan, on) ==
    IF fans.port[fan] # NoPort
    THEN LET s1 == IF on THEN [s EXCEPT !.fans_on = @ \cup {fan}] ELSE s
             s2 == IF fan = 0 THEN task_delete(s1) ELSE s1
             s3 == [s2 EXCEPT !.report_fan = TRUE]
         IN  digital_out(s3, fans.port[fan], on)
    ELSE s

\* A fan_set_state without the test of the port.
fan_set_state_NoPortTest(s, fan, on) ==
    LET s1 == IF on
              THEN [s EXCEPT !.fans_on = @ \cup {fan}]
              ELSE [s EXCEPT !.fans_on = @ \ {fan}, !.fans_linked = @ \ {fan}]
        s2 == IF fan = 0 THEN task_delete(s1) ELSE s1
        s3 == [s2 EXCEPT !.report_fan = TRUE]
    IN  digital_out(s3, fans.port[fan], on)

\* fan_set_state, for fan in 0..3.
fan_set_state(s, fan, on) ==
    IF fans.port[fan] # NoPort
    THEN LET s1 == IF on
                   THEN [s EXCEPT !.fans_on = @ \cup {fan}]
                   ELSE [s EXCEPT !.fans_on = @ \ {fan},
                                  !.fans_linked = @ \ {fan}]
             s2 == IF fan = 0 THEN task_delete(s1) ELSE s1
             s3 == [s2 EXCEPT !.report_fan = TRUE]
         IN  IF fan = 0 /\ fan_spindle_set_state # "NULL"
             THEN s3
             ELSE digital_out(s3, fans.port[fan], on)
    ELSE s

\* ------------------------------------------------------------------ startup

ZeroSettings ==
    [ port |-> [i \in FanIndex |-> 0], spindle_link |-> {}, fan0_off_delay |-> 0 ]

\* A spindle's set_state pointer: the driver's own function of spindle sp, or
\* this file's onSpindleSetState.
Driver(sp) == [fn |-> "driver", sp |-> sp]

Wrapper == [fn |-> "onSpindleSetState", sp |-> 0]

NullPtr == [fn |-> "NULL", sp |-> 0]

\* The record of an operation.  Arguments and results differ in kind from one
\* operation to the next, so each is filed under the operation's name.
Call(op, a, r) == [op |-> op, a |-> [x \in {op} |-> a], r |-> [x \in {op} |-> r]]

\* The arguments and the result of the operation recorded in c.
Args(c) == c.a[c.op]

Result(c) == c.r[c.op]

Called(op, a, r) == call' = Call(op, a, r)

NoChain == chained' = << >>

\* The state after the C runtime has zero-initialised the statics, before
\* the host calls fans_init: for a build in builds, a port count in counts
\* and the host's own handlers drawn from handlers.
Static(builds, counts, handlers) ==
    /\ FANS_ENABLE \in builds
    /\ n_ports \in counts
    /\ n_fans = 0
    /\ fans_on = {}
    /\ fans_linked = {}
    /\ fan_setting = ZeroSettings
    /\ fans = ZeroSettings
    /\ nvs_address = 0
    /\ user_mcode = [check |-> "NULL", validate |-> "NULL", execute |-> "NULL"]
    /\ driver_reset = "NULL"
    /\ on_realtime_report = "NULL"
    /\ on_unknown_accessory_override = "NULL"
    /\ on_program_completed = "NULL"
    /\ on_report_options = "NULL"
    /\ on_spindle_select = "NULL"
    /\ on_spindle_set_state = NullPtr
    /\ \E h \in handlers :
          grbl = [ check |-> h, validate |-> h, execute |-> h,
                   driver_reset |-> "prev", on_realtime_report |-> h,
                   on_unknown_accessory_override |-> h,
                   on_program_completed |-> h, on_report_options |-> "prev",
                   on_spindle_select |-> h ]
    /\ set_state = [sp \in Spindles |-> Driver(sp)]
    /\ nvs = [valid |-> FALSE, image |-> ZeroSettings]
    /\ claimed = {}
    /\ port_level = [p \in Ports |-> -1]
    /\ fan_off_tasks = 0
    /\ fg_tasks = << >>
    /\ report_fan = FALSE
    /\ phase = "static"
    /\ call = Call("none", << >>, "void")
    /\ chained = << >>
    /\ edits = 0

Init == Static(1 .. MaxFans, 0 .. MaxPorts, {"NULL", "prev"})

\* fans_init: register the settings and hook report_options and
\* onSpindleSelect when ports can be claimed and a storage slot is there.
fans_init ==
    /\ phase = "static"
    /\ \E can_claim \in BOOLEAN, slot \in {0, 1} :
          /\ nvs_address' = IF can_claim THEN slot ELSE nvs_address
          /\ IF can_claim /\ slot # 0
             THEN /\ on_report_options' = grbl.on_report_options
                  /\ on_spindle_select' = grbl.on_spindle_select
                  /\ grbl' = [grbl EXCEPT !.on_report_options = "fans",
                                          !.on_spindle_select = "fans"]
                  /\ fg_tasks' = fg_tasks
                  /\ phase' = "registered"
             ELSE /\ fg_tasks' = Append(fg_tasks, "Fans plugin failed to initialize!")
                  /\ phase' = "disabled"
                  /\ UNCHANGED << on_report_options, on_spindle_select, grbl >>
          /\ Called("fans_init", << can_claim, slot >>, "void")
    /\ NoChain
    /\ UNCHANGED << FANS_ENABLE, n_ports, n_fans, user_mcode, driver_reset,
                    on_realtime_report, on_unknown_accessory_override,
                    on_program_completed, claimed, settings, spindle_hooks,
                    fan_state, edits >>

\* fan_setup: save the host's handlers and install this file's.
fan_setup ==
    /\ user_mcode' = [check |-> grbl.check, validate |-> grbl.validate,
                      execute |-> grbl.execute]
    /\ driver_reset' = grbl.driver_reset
    /\ on_realtime_report' = grbl.on_realtime_report
    /\ on_unknown_accessory_override' = grbl.on_unknown_accessory_override
    /\ on_program_completed' = grbl.on_program_completed
    /\ grbl' = [grbl EXCEPT !.check = "fans", !.validate = "fans",
                            !.execute = "fans", !.driver_reset = "fans",
                            !.on_realtime_report = "fans",
                            !.on_unknown_accessory_override = "fans",
                            !.on_program_completed = "fans"]

\* The port loop of fan_settings_restore, idx counting down from FANS_ENABLE:
\* port[idx] = base_port + idx, in uint8_t.
RECURSIVE RestorePorts(_, _, _)
RestorePorts(port, base_port, idx) ==
    IF idx = 0
    THEN port
    ELSE LET i == idx - 1
             p == IF i # 0 \/ fan_spindle_set_state = "NULL"
                  THEN [port EXCEPT ![i] = Byte(base_port + i)]
                  ELSE port
         IN  RestorePorts(p, base_port, i)

\* fan_settings_restore: the defaults, as a value of fan_setting.
restore(fs) ==
    [ port |-> IF n_ports # 0
               THEN RestorePorts(fs.port, Byte(n_ports - FANS_ENABLE), FANS_ENABLE)
               ELSE fs.port,
      spindle_link |-> {},
      fan0_off_delay |-> 0 ]

\* ioport_claim(Port_Digital, Port_Output, &port, name): the host hands out a
\* port that exists and that nobody has claimed.
ioport_claim(cl, port) == port < n_ports /\ port \notin cl

\* A load loop without the sanity check of the stored port.
RECURSIVE LoadLoop_NoSanityCheck(_, _)
LoadLoop_NoSanityCheck(st, idx) ==
    IF idx = 0
    THEN st
    ELSE LET i == idx - 1
             ok == st.fs[i] # NoPort /\ ioport_claim(st.claimed, st.fs[i])
         IN  LoadLoop_NoSanityCheck(
                 IF ok
                 THEN [st EXCEPT !.port[i] = st.fs[i], !.n_fans = @ + 1,
                                 !.claimed = @ \cup {st.fs[i]}]
                 ELSE [st EXCEPT !.port[i] = NoPort, !.failed = @ + 1,
                                 !.link = @ \ {i}],
                 i)

\* The loop of fan_settings_load, idx counting down from FANS_ENABLE, over
\* st = [fs: fan_setting.port, port: fans.port, link: fans.spindle_link,
\*       n_fans, failed, claimed].
RECURSIVE LoadLoop(_, _)
LoadLoop(st, idx) ==
    IF idx = 0
    THEN st
    ELSE LET i == idx - 1
             fsp == IF st.fs[i] >= n_ports THEN NoPort ELSE st.fs[i]
             ok == fsp # NoPort /\ ioport_claim(st.claimed, fsp)
             nxt == IF i # 0 \/ fan_spindle_set_state = "NULL"
                    THEN IF ok
                         THEN [st EXCEPT !.fs[i] = fsp, !.port[i] = fsp,
                                         !.n_fans = @ + 1,
                                         !.claimed = @ \cup {fsp}]
                         ELSE [st EXCEPT !.fs[i] = fsp, !.port[i] = NoPort,
                                         !.failed = @ + 1,
                                         !.link = @ \ {i}]
                    ELSE st
         IN  LoadLoop(nxt, i)

\* fan_settings_load: read the stored settings (the defaults when the read
\* fails), claim the ports, install the handlers when a fan has a port and
\* queue a warning when a port could not be claimed.
fan_settings_load ==
    /\ phase = "registered"
    /\ LET fs  == IF nvs.valid THEN nvs.image ELSE restore(fan_setting)
           st0 == [ fs |-> fs.port, port |-> fans.port, link |-> fs.spindle_link,
                    n_fans |-> n_fans, failed |-> 0, claimed |-> claimed ]
           st  == IF n_ports # 0 THEN LoadLoop(st0, FANS_ENABLE) ELSE st0
       IN  /\ nvs' = IF nvs.valid THEN nvs ELSE [valid |-> TRUE, image |-> fs]
           /\ fan_setting' = [fs EXCEPT !.port = st.fs]
           /\ fans' = IF n_ports # 0
                      THEN [fans EXCEPT !.port = st.port, !.spindle_link = st.link]
                      ELSE fans
           /\ n_fans' = st.n_fans
           /\ claimed' = st.claimed
           /\ IF st.n_fans # 0
              THEN fan_setup
              ELSE UNCHANGED << user_mcode, driver_reset, on_realtime_report,
                                on_unknown_accessory_override,
                                on_program_completed, grbl >>
           /\ fg_tasks' = IF st.failed # 0
                          THEN Append(fg_tasks, "Fans plugin: configured port number(s) not available")
                          ELSE fg_tasks
           /\ Called("fan_settings_load", << nvs.valid >>, "void")
    /\ phase' = "running"
    /\ NoChain
    /\ UNCHANGED << FANS_ENABLE, n_ports, nvs_address, on_report_options,
                    on_spindle_select, spindle_hooks, fan_state, edits >>

\* ------------------------------------------------------------------ M-codes

\* User M-codes: M106, M107 and any code of another plugin.
MCodes == {"Fan_On", "Fan_Off", "Other"}

\* P words, in tenths: -1, 0.5, 0, 1, 2, 3, 4, 5.
PWords == {-10, 5, 0, 10, 20, 30, 40, 50}

States == {"STATE_IDLE", "STATE_CHECK_MODE"}

\* A parser block: the M-code, whether a P word is present, and its value.
Blocks ==
    [user_mcode : MCodes, words_p : {TRUE}, values_p : PWords]
    \cup [user_mcode : MCodes, words_p : {FALSE}, values_p : {0}]

isintf(v) == v % 10 = 0

\* The record of a call to a saved handler: which, its arguments, what it
\* returned and the on/off bit set at the time of the call.
ChainCall(h, a, r, s) ==
    [ h |-> h, a |-> [x \in {h} |-> a], r |-> [x \in {h} |-> r],
      fans_on |-> s.fans_on ]

\* The arguments and the result of the call to a saved handler recorded in k.
ChainArgs(k) == k.a[k.h]

ChainResult(k) == k.r[k.h]

\* userMCodeCheck
userMCodeCheck ==
    /\ phase = "running"
    /\ grbl.check = "fans"
    /\ \E mcode \in MCodes, r \in {"UserMCode_Normal", "UserMCode_Unsupported"} :
          IF mcode \in {"Fan_On", "Fan_Off"}
          THEN /\ r = "UserMCode_Normal"
               /\ Called("userMCodeCheck", << mcode >>, "UserMCode_Normal")
               /\ NoChain
          ELSE IF user_mcode.check # "NULL"
          THEN /\ Called("userMCodeCheck", << mcode >>, r)
               /\ chained' = << ChainCall("check", << mcode >>, r, Cur) >>
          ELSE /\ r = "UserMCode_Unsupported"
               /\ Called("userMCodeCheck", << mcode >>, "UserMCode_Unsupported")
               /\ NoChain
    /\ UNCHANGED << config, settings, spindle_hooks, fan_state, phase >>

\* The test of the P word in userMCodeValidate, line 88.  fans.port has four
\* elements: an index past them reads whatever the build placed there, so the
\* result of the comparison with 0xFF is either one.
BadP(v) ==
    IF ~isintf(v) \/ v < 0
    THEN {TRUE}
    ELSE IF (v \div 10) \in FanIndex
    THEN {fans.port[v \div 10] = NoPort}
    ELSE BOOLEAN

\* The status userMCodeValidate computes itself, before any delegation.
ValidateStatus(b) ==
    IF b.user_mcode \in {"Fan_On", "Fan_Off"}
    THEN IF b.words_p
         THEN {IF bad THEN "Status_GcodeValueOutOfRange" ELSE "Status_OK" :
                  bad \in BadP(b.values_p)}
         ELSE {"Status_OK"}
    ELSE {"Status_Unhandled"}

\* userMCodeValidate: the status, and the block with the P word taken.
userMCodeValidate ==
    /\ phase = "running"
    /\ grbl.validate = "fans"
    /\ \E b \in Blocks, r \in {"Status_OK", "Status_GcodeUnsupportedCommand"} :
       \E state \in ValidateStatus(b) :
          LET out == IF b.user_mcode \in {"Fan_On", "Fan_Off"} /\ b.words_p
                     THEN [b EXCEPT !.words_p = FALSE]
                     ELSE b
          IN  IF state = "Status_Unhandled" /\ user_mcode.validate # "NULL"
              THEN /\ Called("userMCodeValidate", << b, out >>, r)
                   /\ chained' = << ChainCall("validate", << out >>, r, Cur) >>
              ELSE /\ r = "Status_OK"
                   /\ Called("userMCodeValidate", << b, out >>, state)
                   /\ NoChain
    /\ UNCHANGED << config, settings, spindle_hooks, fan_state, phase >>

\* userMCodeExecute.  The host executes a block only after validation
\* returned Status_OK, and hands the block over with the P word flagged as it
\* was given.  Blocks whose P indexes past fans.port are left out: what
\* fan_set_state does with them is not defined.
userMCodeExecute(state, b) ==
    /\ phase = "running"
    /\ grbl.execute = "fans"
    /\    /\ b.words_p => b.user_mcode # "Other" /\ isintf(b.values_p)
                          /\ b.values_p >= 0 /\ (b.values_p \div 10) \in FanIndex
          /\ b.user_mcode # "Other" => "Status_OK" \in ValidateStatus(b)
          /\ LET fan == IF b.words_p THEN Byte(b.values_p \div 10) ELSE 0
                 handled == state = "STATE_CHECK_MODE" \/ b.user_mcode # "Other"
                 s == IF state = "STATE_CHECK_MODE"
                      THEN Cur
                      ELSE IF b.user_mcode = "Fan_On"
                      THEN fan_set_state(Cur, fan, TRUE)
                      ELSE IF b.user_mcode = "Fan_Off"
                      THEN fan_set_state(IF fan = 0 THEN task_delete(Cur) ELSE Cur,
                                         fan, FALSE)
                      ELSE Cur
             IN  /\ Commit(s)
                 /\ chained' = IF ~handled /\ user_mcode.execute # "NULL"
                               THEN << ChainCall("execute", << state, b >>, "void", s) >>
                               ELSE << >>
                 /\ Called("userMCodeExecute", << state, b >>, "void")
    /\ UNCHANGED << config, settings, spindle_hooks, phase >>

\* ------------------------------------------------------- lifecycle hooks

\* A reset loop that stops before fan 0.
RECURSIVE ResetLoop_SkipsFan0(_, _)
ResetLoop_SkipsFan0(s, idx) ==
    IF idx <= 1
    THEN s
    ELSE ResetLoop_SkipsFan0(fan_set_state(s, idx - 1, FALSE), idx - 1)

\* The loop of driverReset, idx counting down from FANS_ENABLE.
RECURSIVE ResetLoop(_, _)
ResetLoop(s, idx) ==
    IF idx = 0 THEN s ELSE ResetLoop(fan_set_state(s, idx - 1, FALSE), idx - 1)

\* driverReset: the saved handler first, then every fan off.
driverReset ==
    /\ phase = "running"
    /\ grbl.driver_reset = "fans"
    /\ chained' = << ChainCall("driver_reset", << >>, "void", Cur) >>
    /\ Commit(ResetLoop(Cur, FANS_ENABLE))
    /\ Called("driverReset", << >>, "void")
    /\ UNCHANGED << config, settings, spindle_hooks, phase >>

\* The loop of onProgramCompleted, idx counting down from FANS_ENABLE.
RECURSIVE CompletedLoop(_, _)
CompletedLoop(s, idx) ==
    IF idx = 0
    THEN s
    ELSE LET i == idx - 1
         IN  CompletedLoop(
                 IF i = 0 /\ fans.port[0] # NoPort /\ fan_setting.fan0_off_delay > 0
                 THEN task_add_delayed(s)
                 ELSE fan_set_state(s, i, FALSE),
                 i)

\* onProgramCompleted: the fans off (fan 0 by the delayed task when it has a
\* port and an off delay), then the saved handler.
onProgramCompleted ==
    /\ phase = "running"
    /\ grbl.on_program_completed = "fans"
    /\ \E program_flow \in {"ProgramFlow_CompletedM30"}, check_mode \in BOOLEAN :
          LET s == CompletedLoop(Cur, FANS_ENABLE)
          IN  /\ s.fan_off_tasks <= MaxTasks
              /\ Commit(s)
              /\ chained' = IF on_program_completed # "NULL"
                            THEN << ChainCall("on_program_completed",
                                              << program_flow, check_mode >>, "void", s) >>
                            ELSE << >>
              /\ Called("onProgramCompleted", << program_flow, check_mode >>, "void")
    /\ UNCHANGED << config, settings, spindle_hooks, phase >>

\* Real-time override commands: the fan 0 toggle and any other.
Commands == {"CMD_OVERRIDE_FAN0_TOGGLE", "CMD_OVERRIDE_OTHER"}

\* An override handler that switches fan 0 on instead of inverting it.
onAccessoryOverride_SwitchesOn ==
    /\ phase = "running"
    /\ grbl.on_unknown_accessory_override = "fans"
    /\ \E cmd \in Commands :
          /\ IF cmd = "CMD_OVERRIDE_FAN0_TOGGLE" /\ fans.port[0] # NoPort
             THEN /\ Commit(fan_set_state(Cur, 0, TRUE))
                  /\ NoChain
             ELSE /\ UNCHANGED fan_state
                  /\ chained' = IF on_unknown_accessory_override # "NULL"
                                THEN << ChainCall("on_unknown_accessory_override",
                                                  << cmd >>, "void", Cur) >>
                                ELSE << >>
          /\ Called("onAccessoryOverride", << cmd >>, "void")
    /\ UNCHANGED << config, settings, spindle_hooks, phase >>

\* onAccessoryOverride
onAccessoryOverride ==
    /\ phase = "running"
    /\ grbl.on_unknown_accessory_override = "fans"
    /\ \E cmd \in Commands :
          /\ IF cmd = "CMD_OVERRIDE_FAN0_TOGGLE" /\ fans.port[0] # NoPort
             THEN /\ Commit(fan_set_state(Cur, 0, ~fan_get_state(0)))
                  /\ NoChain
             ELSE /\ UNCHANGED fan_state
                  /\ chained' = IF on_unknown_accessory_override # "NULL"
                                THEN << ChainCall("on_unknown_accessory_override",
                                                  << cmd >>, "void", Cur) >>
                                ELSE << >>
          /\ Called("onAccessoryOverride", << cmd >>, "void")
    /\ UNCHANGED << config, settings, spindle_hooks, phase >>

\* A delayed task that leaves the queue without switching fan 0.
fan_off_NoSwitch ==
    /\ phase = "running"
    /\ fan_off_tasks > 0
    /\ Commit([Cur EXCEPT !.fan_off_tasks = @ - 1])
    /\ Called("fan_off", << >>, "void")
    /\ NoChain
    /\ UNCHANGED << config, settings, spindle_hooks, phase >>

\* fan_off: the delayed task.  The host takes it off its queue and runs it.
fan_off ==
    /\ phase = "running"
    /\ fan_off_tasks > 0
    /\ Commit(fan_set_state([Cur EXCEPT !.fan_off_tasks = @ - 1], 0, FALSE))
    /\ Called("fan_off", << >>, "void")
    /\ NoChain
    /\ UNCHANGED << config, settings, spindle_hooks, phase >>

\* fan_set_state called by other code (it is exported, like fan_get_state).
\* A caller's index is kept within port[4].
call_fan_set_state ==
    /\ phase = "running"
    /\ \E fan \in FanIndex, on \in BOOLEAN :
          /\ Commit(fan_set_state(Cur, fan, on))
          /\ Called("fan_set_state", << fan, on >>, "void")
    /\ NoChain
    /\ UNCHANGED << config, settings, spindle_hooks, phase >>

\* ---------------------------------------------------------------- spindle

\* A mirror loop that does not skip the fans whose linked bit is clear.
RECURSIVE MirrorLoop_NoSkip(_, _, _)
MirrorLoop_NoSkip(s, on, idx) ==
    IF idx = 0
    THEN s
    ELSE LET i == idx - 1
             s1 == IF on /\ ~get_state(s, i)
                   THEN [s EXCEPT !.fans_linked = @ \cup {i}]
                   ELSE s
             s2 == IF i = 0 /\ ~on /\ fan_setting.fan0_off_delay > 0
                   THEN task_add_delayed(s1)
                   ELSE fan_set_state(s1, i, on)
         IN  MirrorLoop_NoSkip(IF i \in fans.spindle_link THEN s2 ELSE s, on, i)

\* The loop of onSpindleSetState, idx counting down from FANS_ENABLE.
RECURSIVE MirrorLoop(_, _, _)
MirrorLoop(s, on, idx) ==
    IF idx = 0
    THEN s
    ELSE LET i == idx - 1
             s1 == IF on /\ ~get_state(s, i)
                   THEN [s EXCEPT !.fans_linked = @ \cup {i}]
                   ELSE s
             s2 == IF i = 0 /\ ~on /\ fan_setting.fan0_off_delay > 0
                   THEN task_add_delayed(s1)
                   ELSE fan_set_state(s1, i, on)
         IN  MirrorLoop(
                 IF i \in fans.spindle_link
                 THEN IF ~on /\ i \notin s.fans_linked THEN s ELSE s2
                 ELSE s,
                 on, i)

\* onSpindleSelect: wrap the selected spindle's set_state.
onSpindleSelect(sp) ==
    /\ phase = "running"
    /\ grbl.on_spindle_select = "fans"
    /\ \E r \in BOOLEAN :
          /\ on_spindle_set_state' = set_state[sp]
          /\ set_state' = [set_state EXCEPT ![sp] = Wrapper]
          /\ IF on_spindle_select = "NULL"
             THEN /\ r = TRUE
                  /\ NoChain
             ELSE chained' = << ChainCall("on_spindle_select", << sp >>, r, Cur) >>
          /\ Called("onSpindleSelect", << sp >>, r)
    /\ UNCHANGED << config, settings, fan_state, phase >>

\* Spindle speeds passed through to the driver.
RPMs == {0, 1000}

\* onSpindleSetState, reached through the set_state pointer of spindle sp:
\* mirror the state to the linked fans, then call the saved set_state.  When
\* the saved pointer is onSpindleSetState itself the call does not return.
onSpindleSetState(sp, on, rpm) ==
    /\ phase = "running"
    /\    /\ set_state[sp] = Wrapper
          /\ LET s == MirrorLoop(Cur, on, FANS_ENABLE)
             IN  /\ s.fan_off_tasks <= MaxTasks
                 /\ Commit(s)
                 /\ IF on_spindle_set_state.fn = "driver"
                    THEN /\ chained' = << ChainCall("set_state",
                                            << on_spindle_set_state.sp, sp, on, rpm >>,
                                            "void", s) >>
                         /\ phase' = phase
                    ELSE /\ NoChain
                         /\ phase' = "hung"
          /\ Called("onSpindleSetState", << sp, on, rpm >>, "void")
    /\ UNCHANGED << config, settings, spindle_hooks >>

\* --------------------------------------------------------------- settings

\* set_spindle_link: store the mask and put in effect the bits of fans that
\* have a port.
RECURSIVE LinkLoop(_, _, _)
LinkLoop(link, value, idx) ==
    IF idx = 0
    THEN link
    ELSE LET i == idx - 1
         IN  LinkLoop(IF i \in value /\ fans.port[i] # NoPort
                      THEN link \cup {i} ELSE link,
                      value, i)

\* Values of Setting_FanToSpindleLink: masks over fan 0 and fan 1.
LinkValues == SUBSET ({0, 1} \cap (0 .. (FANS_ENABLE - 1)))

\* A settings change, counted against MaxEdits when cost is 1.
Edit(cost) ==
    /\ edits + cost <= MaxEdits
    /\ edits' = edits + cost

set_spindle_link(cost) ==
    /\ phase = "running"
    /\ Edit(cost)
    /\ \E value \in LinkValues :
          /\ fan_setting' = [fan_setting EXCEPT !.spindle_link = value]
          /\ fans' = [fans EXCEPT !.spindle_link = LinkLoop({}, value, FANS_ENABLE)]
          /\ Called("set_spindle_link", << value >>, "Status_OK")
    /\ NoChain
    /\ UNCHANGED << hooks, nvs, spindle_hooks, fan_state, phase >>

\* Setting_Fan0OffDelay: the host stores the value through the pointer of the
\* settings table, line 380.
set_fan0_off_delay(cost) ==
    /\ phase = "running"
    /\ Edit(cost)
    /\ \E value \in Delays :
          /\ fan_setting' = [fan_setting EXCEPT !.fan0_off_delay = value]
          /\ Called("Setting_Fan0OffDelay", << value >>, "Status_OK")
    /\ NoChain
    /\ UNCHANGED << hooks, fans, nvs, spindle_hooks, fan_state, phase >>

\* Values handed to set_float, in tenths: -1, 0.5, 0, 1, 4.
PortValues == {-10, 5, 0, 10, 40}

\* is_setting_available for Setting_FanPort<k>; the table holds the setting
\* only in a build with more than k fans.
is_setting_available(k) == k < FANS_ENABLE /\ n_ports >= k + 1

\* The element of fan_setting.port that set_float writes for Setting_FanPort<k>.
PortSlot(k) == IF k = 3 THEN 2 ELSE k

\* set_float for Setting_FanPort<k>: the status and the settings afterwards.
set_float(k, value) ==
    IF isintf(value)
    THEN [ status |-> "Status_OK",
           fan_setting |-> [fan_setting EXCEPT
                              !.port[PortSlot(k)] =
                                  IF value < 0 THEN 255 ELSE Byte(value \div 10)] ]
    ELSE [ status |-> "Status_BadNumberFormat", fan_setting |-> fan_setting ]

\* get_float for Setting_FanPort<k>, in tenths.
get_float(k) ==
    IF fan_setting.port[k] >= n_ports THEN -10 ELSE fan_setting.port[k] * 10

\* The host stores a port setting.
call_set_float ==
    /\ phase = "running"
    /\ Edit(1)
    /\ \E k \in FanIndex, value \in PortValues :
          /\ is_setting_available(k)
          /\ fan_setting' = set_float(k, value).fan_setting
          /\ Called("set_float", << k, value >>, set_float(k, value).status)
    /\ NoChain
    /\ UNCHANGED << hooks, fans, nvs, spindle_hooks, fan_state, phase >>

\* fan_settings_save
fan_settings_save ==
    /\ phase = "running"
    /\ nvs' = [valid |-> TRUE, image |-> fan_setting]
    /\ Called("fan_settings_save", << >>, "void")
    /\ NoChain
    /\ UNCHANGED << config, fan_setting, fans, spindle_hooks, fan_state, phase >>

\* fan_settings_restore, called by the host for a settings reset.
fan_settings_restore ==
    /\ phase = "running"
    /\ Edit(1)
    /\ fan_setting' = restore(fan_setting)
    /\ nvs' = [valid |-> TRUE, image |-> restore(fan_setting)]
    /\ Called("fan_settings_restore", << >>, "void")
    /\ NoChain
    /\ UNCHANGED << hooks, fans, spindle_hooks, fan_state, phase >>

\* The handler the host had in a slot before this file hooked it.
Original(slot, saved) == IF grbl[slot] = "fans" THEN saved ELSE grbl[slot]

\* A restart of the controller: the statics are zero again, the host's tables
\* are its own again, the storage keeps its content.  No settings change
\* follows in the model.
Reboot ==
    /\ phase = "running"
    /\ call.op \in {"fan_settings_save", "fan_settings_restore"}
    /\ edits' = MaxEdits
    /\ n_fans' = 0
    /\ fans_on' = {}
    /\ fans_linked' = {}
    /\ fan_setting' = ZeroSettings
    /\ fans' = ZeroSettings
    /\ nvs_address' = 0
    /\ user_mcode' = [check |-> "NULL", validate |-> "NULL", execute |-> "NULL"]
    /\ driver_reset' = "NULL"
    /\ on_realtime_report' = "NULL"
    /\ on_unknown_accessory_override' = "NULL"
    /\ on_program_completed' = "NULL"
    /\ on_report_options' = "NULL"
    /\ on_spindle_select' = "NULL"
    /\ on_spindle_set_state' = NullPtr
    /\ grbl' = [ check |-> Original("check", user_mcode.check),
                 validate |-> Original("validate", user_mcode.validate),
                 execute |-> Original("execute", user_mcode.execute),
                 driver_reset |-> Original("driver_reset", driver_reset),
                 on_realtime_report |-> Original("on_realtime_report", on_realtime_report),
                 on_unknown_accessory_override |->
                     Original("on_unknown_accessory_override", on_unknown_accessory_override),
                 on_program_completed |->
                     Original("on_program_completed", on_program_completed),
                 on_report_options |-> Original("on_report_options", on_report_options),
                 on_spindle_select |-> Original("on_spindle_select", on_spindle_select) ]
    /\ set_state' = [sp \in Spindles |-> Driver(sp)]
    /\ claimed' = {}
    /\ port_level' = [p \in Ports |-> -1]
    /\ fan_off_tasks' = 0
    /\ fg_tasks' = << >>
    /\ report_fan' = FALSE
    /\ phase' = "static"
    /\ Called("Reboot", << >>, "void")
    /\ NoChain
    /\ UNCHANGED << FANS_ENABLE, n_ports, nvs >>

\* The blocks of M106 and M107.
FanBlocks == {b \in Blocks : b.user_mcode # "Other"}

\* The fan-switching operations, with one spindle selected once.
Next ==
    \/ fans_init
    \/ fan_settings_load
    \/ \E b \in FanBlocks : userMCodeExecute("STATE_IDLE", b)
    \/ driverReset
    \/ onProgramCompleted
    \/ onAccessoryOverride
    \/ fan_off
    \/ call_fan_set_state
    \/ set_state[1] = Driver(1) /\ onSpindleSelect(1)
    \/ \E on \in BOOLEAN : onSpindleSetState(1, on, 0)
    \/ set_spindle_link(0)
    \/ set_fan0_off_delay(0)

\* The M-code chain.
NextMCode ==
    \/ fans_init
    \/ fan_settings_load
    \/ userMCodeCheck
    \/ userMCodeValidate
    \/ \E state \in States, b \in Blocks : userMCodeExecute(state, b)

SpecMCode == Init /\ [][NextMCode]_vars

\* The settings: a few changes, a save, a restart and the load after it, with
\* up to as many ports as a build can have fans.
InitSettings == Static(1 .. MaxFans, 0 .. MaxFans, {"prev"})

NextSettings ==
    \/ fans_init
    \/ fan_settings_load
    \/ call_set_float
    \/ set_spindle_link(1)
    \/ set_fan0_off_delay(1)
    \/ fan_settings_restore
    \/ fan_settings_save
    \/ Reboot

SpecSettings == InitSettings /\ [][NextSettings]_vars

Spec == Init /\ [][Next]_vars

\* The spindle hooks: any spindle selected any number of times, and set_state
\* called on a spindle whose pointer is the wrapper.
NextSpindle ==
    \/ fans_init
    \/ fan_settings_load
    \/ set_spindle_link(0)
    \/ \E sp \in Spindles : onSpindleSelect(sp)
    \/ \E sp \in Spindles, on \in BOOLEAN, rpm \in RPMs : onSpindleSetState(sp, on, rpm)

SpecSpindle == Init /\ [][NextSpindle]_vars

\* The same operations with the host's task queue run fairly: a delayed task
\* that stays queued is run.
SpecFair == Init /\ [][Next]_vars /\ WF_fan_off_tasks(fan_off)

\* ------------------------------------------------------------------ claims

\* The fan a block addresses, as userMCodeExecute computes it.
FanOf(b) == IF b.words_p THEN Byte(b.values_p \div 10) ELSE 0

\* Fan i has a port: the test every handler makes.
Assigned(i) == fans.port[i] # NoPort

\* C1: after fan_set_state(i, on) on a fan that has a port, fan_get_state(i)
\* returns on, for on true and on false alike.
C1_SetThenGet ==
    (call.op = "fan_set_state" /\ Assigned(Args(call)[1]))
        => (fan_get_state(Args(call)[1]) = Args(call)[2])

\* A fan below FANS_ENABLE with a claimed port has just been switched on.
C1_Witness ==
    /\ call.op = "fan_set_state"
    /\ Args(call)[1] < FANS_ENABLE
    /\ Assigned(Args(call)[1])
    /\ fans.port[Args(call)[1]] \in claimed
    /\ Args(call)[2]
    /\ fan_get_state(Args(call)[1])

\* C2: fan_set_state on a fan without a port (port 0xFF) changes nothing, the
\* on/off and linked bits, the pending delayed-off tasks, the report flag and
\* the outputs, and fan_get_state of that fan is false before and after.
C2_UnassignedNoOp ==
    [][ \A i \in FanIndex :
          (call'.op = "fan_set_state" /\ Args(call')[1] = i /\ ~Assigned(i))
              => /\ UNCHANGED fan_state
                 /\ ~fan_get_state(i)
                 /\ ~(fan_get_state(i))' ]_vars

\* fan_set_state(i, true) has run on a fan without a port while another fan
\* is on.
C2_Witness ==
    /\ call.op = "fan_set_state"
    /\ ~Assigned(Args(call)[1])
    /\ Args(call)[2]
    /\ fans_on # {}

\* The last operation switched fan 0 on: M106 for fan 0, the override toggle
\* from off, spindle-on with fan 0 linked, or fan_set_state(0, true).
Fan0SwitchedOn ==
    /\ Assigned(0)
    /\ \/ /\ call.op = "userMCodeExecute"
          /\ Args(call)[1] # "STATE_CHECK_MODE"
          /\ Args(call)[2].user_mcode = "Fan_On"
          /\ FanOf(Args(call)[2]) = 0
       \/ /\ call.op = "onAccessoryOverride"
          /\ Args(call)[1] = "CMD_OVERRIDE_FAN0_TOGGLE"
          /\ fan_get_state(0)
       \/ /\ call.op = "onSpindleSetState"
          /\ Args(call)[2]
          /\ 0 \in fans.spindle_link
       \/ /\ call.op = "fan_set_state"
          /\ Args(call) = << 0, TRUE >>

\* C4: when fan 0 has been switched on, by whatever path, no delayed-off
\* task is pending.
C4_OnCancelsDelayedOff ==
    Fan0SwitchedOn => fan_off_tasks = 0

\* C5: a spindle-off call with fan 0 in the link mask and on (here: switched
\* on by the link, the case most favourable to the claim) leaves fan 0 off
\* when the delay is 0, and leaves it on with exactly one delayed-off task
\* pending when the delay is greater than 0.
C5_SpindleOffFan0 ==
    [][ ( /\ call'.op = "onSpindleSetState"
          /\ ~Args(call')[2]
          /\ 0 \in fans.spindle_link
          /\ fan_get_state(0)
          /\ 0 \in fans_linked )
        => IF fan_setting.fan0_off_delay = 0
           THEN ~(fan_get_state(0))'
           ELSE (fan_get_state(0))' /\ fan_off_tasks' = 1 ]_vars

\* The fans of the build, and whether program completion delays fan 0.
Fans == 0 .. (FANS_ENABLE - 1)

Fan0Delayed == Assigned(0) /\ fan_setting.fan0_off_delay > 0

\* C7 as stated: both hooks call the saved handler only after the fans have
\* been forced off, so at the time of that call, as when the hook returns,
\* no fan other than a delayed fan 0 is on.
C7_OffThenChain ==
    (call.op \in {"driverReset", "onProgramCompleted"} /\ chained # << >>)
        => /\ \A i \in Fans : i \in chained[1].fans_on => (i = 0 /\ Fan0Delayed)
           /\ \A i \in Fans : fan_get_state(i) => (i = 0 /\ Fan0Delayed)

\* C7 amended: onProgramCompleted switches the fans off, fan 0 by one more
\* delayed task when it has a port and a delay, and then calls the saved
\* handler when there is one; driverReset calls the saved handler first and
\* then switches every fan off at once, fan 0 included.  When either returns,
\* no fan other than a delayed fan 0 is on.
C7_ResetAndCompleted ==
    [][ /\ call'.op = "onProgramCompleted"
           => /\ \A i \in Fans : (fan_get_state(i))' => (i = 0 /\ Fan0Delayed)
              /\ Fan0Delayed => /\ fan_off_tasks' = fan_off_tasks + 1
                                /\ (fan_get_state(0))' = fan_get_state(0)
              /\ Len(chained') = IF on_program_completed # "NULL" THEN 1 ELSE 0
              /\ chained' # << >> => chained'[1].fans_on = fans_on'
        /\ call'.op = "driverReset"
           => /\ \A i \in Fans : ~(fan_get_state(i))'
              /\ Len(chained') = 1
              /\ chained'[1].fans_on = fans_on ]_vars

\* Program completion has left a delayed fan 0 on with its task pending and
\* has called the saved handler; and a reset has switched off a fan that was
\* on when the saved handler was called.
C7_Witness ==
    \/ /\ call.op = "onProgramCompleted"
       /\ Fan0Delayed
       /\ fan_get_state(0)
       /\ fan_off_tasks = 1
       /\ chained # << >>
    \/ /\ call.op = "driverReset"
       /\ chained[1].fans_on \cap Fans # {}
       /\ fans_on \cap Fans = {}

\* C8: the fan 0 toggle command, with fan 0 assigned, inverts fan 0 and does
\* not call the saved handler; any other command, or the toggle with fan 0
\* unassigned, changes no fan state and calls the saved handler, when there
\* is one, with the same command.
C8_Override ==
    [][ call'.op = "onAccessoryOverride"
        => IF Args(call')[1] = "CMD_OVERRIDE_FAN0_TOGGLE" /\ Assigned(0)
           THEN /\ (fan_get_state(0))' = ~fan_get_state(0)
                /\ chained' = << >>
           ELSE /\ UNCHANGED fan_state
                /\ IF on_unknown_accessory_override # "NULL"
                   THEN /\ Len(chained') = 1
                        /\ chained'[1].h = "on_unknown_accessory_override"
                        /\ ChainArgs(chained'[1]) = Args(call')
                   ELSE chained' = << >> ]_vars

\* The toggle has switched fan 0 off: its port was driven low.
C8_Witness ==
    /\ call.op = "onAccessoryOverride"
    /\ Args(call)[1] = "CMD_OVERRIDE_FAN0_TOGGLE"
    /\ Assigned(0)
    /\ ~fan_get_state(0)
    /\ port_level[fans.port[0]] = 0

\* The P word names a fan of the build that has a port.
GoodP(v) ==
    /\ isintf(v)
    /\ v >= 0
    /\ (v \div 10) < FANS_ENABLE
    /\ Assigned(v \div 10)

\* C3: validation of M106/M107 with a P word returns Status_OK exactly when P
\* is a non-negative integer below FANS_ENABLE whose fan has a port.
C3_ValidateP ==
    ( /\ call.op = "userMCodeValidate"
      /\ Args(call)[1].user_mcode \in {"Fan_On", "Fan_Off"}
      /\ Args(call)[1].words_p )
        => (Result(call) = "Status_OK" <=> GoodP(Args(call)[1].values_p))

\* The M-code of the last call of one of the three M-code hooks.
HookMCode ==
    CASE call.op = "userMCodeCheck" -> Args(call)[1]
      [] call.op = "userMCodeValidate" -> Args(call)[1].user_mcode
      [] call.op = "userMCodeExecute" -> Args(call)[2].user_mcode
      [] OTHER -> "none"

\* The handler a hook saved, and the arguments it has to pass on.
HookSaved ==
    CASE call.op = "userMCodeCheck" -> user_mcode.check
      [] call.op = "userMCodeValidate" -> user_mcode.validate
      [] call.op = "userMCodeExecute" -> user_mcode.execute
      [] OTHER -> "NULL"

HookArgs ==
    IF call.op = "userMCodeValidate" THEN << Args(call)[1] >> ELSE Args(call)

\* C6: for an M-code other than M106 and M107, in every controller state,
\* each of the three hooks calls the saved handler, when there is one, exactly
\* once with the arguments it got and returns what that handler returned.
C6_Delegates ==
    (HookMCode = "Other" /\ HookSaved # "NULL")
        => /\ Len(chained) = 1
           /\ ChainArgs(chained[1]) = HookArgs
           /\ ChainResult(chained[1]) = Result(call)

\* ------------------------------------------------------------------ C9

\* fan_settings_load has just run and its storage read succeeded.
LoadedFromStorage == call.op = "fan_settings_load" /\ Args(call)[1]

\* C9, as stated: saving the settings and then loading them with a successful
\* storage read reproduces, for every fan index below FANS_ENABLE, the same
\* port number, and the same spindle-link mask and fan-0 off delay, as were
\* held when saving.
C9_RoundTrip ==
    LoadedFromStorage =>
        /\ \A i \in Fans : fan_setting.port[i] = nvs.image.port[i]
        /\ fan_setting.spindle_link = nvs.image.spindle_link
        /\ fan_setting.fan0_off_delay = nvs.image.fan0_off_delay

\* C9, amended: after a load with a successful storage read the link mask and
\* the fan-0 off delay are the stored ones, and the port of every fan index
\* below FANS_ENABLE is the stored one unless output ports exist and the
\* stored number is not below their count; such a port is loaded as 0xFF.
C9_LoadSanitised ==
    LoadedFromStorage =>
        /\ \A i \in Fans :
              fan_setting.port[i] =
                  IF n_ports # 0 /\ nvs.image.port[i] >= n_ports
                  THEN NoPort
                  ELSE nvs.image.port[i]
        /\ fan_setting.spindle_link = nvs.image.spindle_link
        /\ fan_setting.fan0_off_delay = nvs.image.fan0_off_delay

\* A load after a restart that kept one stored port and rewrote another, with
\* a stored link mask or delay that is not the default.
C9_Witness ==
    /\ LoadedFromStorage
    /\ edits = MaxEdits
    /\ \E i \in Fans : nvs.image.port[i] < n_ports /\ fan_setting.port[i] = nvs.image.port[i]
    /\ \E i \in Fans : nvs.image.port[i] \notin {NoPort} /\ fan_setting.port[i] = NoPort
    /\ (nvs.image.spindle_link # {} \/ nvs.image.fan0_off_delay # 0)

\* ------------------------------------------------------------------ C10

\* C10: setting the port setting of fan k to an integer v and then reading
\* the port setting of fan k returns v when 0 <= v < n_ports and -1 when v is
\* negative, and the write changes the stored port of no fan other than k.
C10_PortSetThenGet ==
    [][\A k \in FanIndex, v \in PortValues :
          (/\ call'.op = "set_float"
           /\ Result(call') = "Status_OK"
           /\ Args(call') = << k, v >>)
          => /\ (v >= 0 /\ v \div 10 < n_ports) => get_float(k)' = v
             /\ v < 0 => get_float(k)' = -10
             /\ \A j \in FanIndex \ {k} : fan_setting'.port[j] = fan_setting.port[j]
      ]_vars

\* ------------------------------------------------------------------ C11

\* The hooks fan_setup installs, and the two fans_init installs.
SetupHooks == {"check", "validate", "execute", "driver_reset", "on_realtime_report",
               "on_unknown_accessory_override", "on_program_completed"}

InitHooks == {"on_report_options", "on_spindle_select"}

PortWarning == "Fans plugin: configured port number(s) not available"

\* The warnings in the host's foreground queue.
Warnings == {fg_tasks[n] : n \in 1 .. Len(fg_tasks)}

\* C11: after fan_settings_load, for every fan index below FANS_ENABLE, the
\* fan is assigned exactly when its configured port is below n_ports and was
\* claimed for it; every other fan has no bit in the effective link mask; the
\* warning is queued exactly when a fan is left without a port; and the
\* hooks of fan_setup are installed when a fan has claimed a port.
C11_LoadAssigns ==
    call.op = "fan_settings_load" =>
        /\ \A i \in Fans :
              Assigned(i) <=> /\ nvs.image.port[i] < n_ports
                              /\ fans.port[i] = nvs.image.port[i]
                              /\ fans.port[i] \in claimed
        /\ \A i \in Fans : ~Assigned(i) => i \notin fans.spindle_link
        /\ (PortWarning \in Warnings) <=> (\E i \in Fans : ~Assigned(i))
        /\ (\E i \in Fans : Assigned(i)) => \A slot \in SetupHooks : grbl[slot] = "fans"

\* ------------------------------------------------------------------ C12

StartWarning == "Fans plugin failed to initialize!"

\* The hooks of the host that point into this file.
Installed == {slot \in SetupHooks \cup InitHooks : grbl[slot] = "fans"}

\* C12: once fans_init, and fan_settings_load when it was registered, have
\* run, either all of this file's hooks are installed or none is; and when no
\* output port is available or no storage slot was allocated, none is
\* installed and the startup warning is queued.
C12_AllOrNothing ==
    /\ phase \in {"disabled", "running"}
          => Installed \in {{}, SetupHooks \cup InitHooks}
    /\ (phase = "disabled" \/ (phase = "running" /\ n_ports = 0))
          => Installed = {} /\ StartWarning \in Warnings

\* ------------------------------------------------------------------ C13

\* Fan i is on and its port was driven high.
OnAndHigh(i) == fan_get_state(i) /\ port_level[fans.port[i]] = 1

\* C13: when a call of the wrapped state-setter with state on returns, every
\* fan in the effective link mask is on with its port driven high, and no
\* delayed-off task is pending if fan 0 is in the mask.
C13_SpindleOnMirrors ==
    [][ (call'.op = "onSpindleSetState" /\ Args(call')[2] /\ phase' = "running")
        => /\ \A i \in fans.spindle_link : OnAndHigh(i)'
           /\ 0 \in fans.spindle_link => fan_off_tasks' = 0 ]_vars

\* ------------------------------------------------------------------ C14

\* The fans a call of the wrapped state-setter may change: for state on the
\* fans of the link mask, for state off those of them that are on with their
\* linked bit set.
Targets(on) ==
    {i \in Fans \cap fans.spindle_link : on \/ (fan_get_state(i) /\ i \in fans_linked)}

\* A step leaves the bits of fan i alone.
BitsUntouched(i) ==
    /\ (i \in fans_on') = (i \in fans_on)
    /\ (i \in fans_linked') = (i \in fans_linked)

C15_AtMostOneTask == fan_off_tasks <= 1

\* ------------------------------------------------------------------ C16

\* The last operation scheduled a delayed-off task: program completion with
\* a delayed fan 0, or spindle-off with fan 0 linked and a delay.
Scheduled ==
    CASE call.op = "onProgramCompleted" -> Fan0Delayed
      [] call.op = "onSpindleSetState" ->
             /\ ~Args(call)[2]
             /\ 0 \in fans.spindle_link
             /\ 0 \in fans_linked
             /\ fan_setting.fan0_off_delay > 0
      [] OTHER -> FALSE

\* The last operation was a cancelling event: fan 0 switched on or off by a
\* command, a reset, the override or a direct call, switched on by the
\* spindle, or switched off by the spindle or by program completion without
\* a delay.
Cancelled ==
    CASE call.op = "userMCodeExecute" ->
             Args(call)[2].user_mcode # "Other" /\ FanOf(Args(call)[2]) = 0
      [] call.op = "driverReset" -> TRUE
      [] call.op = "onAccessoryOverride" -> Args(call)[1] = "CMD_OVERRIDE_FAN0_TOGGLE"
      [] call.op = "fan_set_state" -> Args(call)[1] = 0
      [] call.op = "onSpindleSetState" ->
             0 \in fans.spindle_link /\ (Args(call)[2] \/ fan_setting.fan0_off_delay = 0)
      [] call.op = "onProgramCompleted" -> fan_setting.fan0_off_delay = 0
      [] OTHER -> FALSE

\* The delayed task has fired and has left fan 0 off, unlinked, its port low,
\* and no further task pending.
FiredOff ==
    IF call.op = "fan_off" /\ fans.port[0] \in Ports
    THEN /\ fan_off_tasks = 0
         /\ ~fan_get_state(0)
         /\ 0 \notin fans_linked
         /\ port_level[fans.port[0]] = 0
    ELSE FALSE

\* What the fans and their settings are, and which operation ran last.
watched == << fan_state, fan_setting, fans, phase, call.op >>

\* C16: once a delayed-off task has been scheduled, and from some point on
\* nothing but the task queue changes the fans, the task fires and leaves
\* fan 0 off with no task pending, unless a cancelling event has come in
\* between.
C16_DelayedOffFires ==
    (<>[][fan_off]_watched) => (Scheduled ~> (FiredOff \/ Cancelled))

\* The delayed task has fired while fan 0 was on and has switched it off.
C16_Witness ==
    /\ FiredOff
    /\ fan_setting.fan0_off_delay > 0
    /\ report_fan

\* ------------------------------------------------------------------ C17

\* C17: every call of the wrapped state-setter returns, and calls the
\* original state-setter of the spindle it was invoked for exactly once, with
\* the same spindle, state and rpm, after the fans have been mirrored.
C17_CallsOriginal ==
    [][ call'.op = "onSpindleSetState"
        => /\ phase' = "running"
           /\ Len(chained') = 1
           /\ ChainArgs(chained'[1]) = << Args(call')[1] >> \o Args(call')
           /\ chained'[1].fans_on = fans_on' ]_vars

\* ------------------------------------------------------------------ C18

\* C18: M106 executed outside check mode leaves the fan addressed by P (fan
\* 0 without a P word) on and M107 leaves it off, the bits of every other
\* fan are unchanged and no port other than the addressed fan's changes
\* level; executed in check mode, either code leaves the on/off bits, the
\* linked bits, the pending delayed-off tasks and every output unchanged.
C18_ExecuteSwitches ==
    [][ \A state \in States, b \in FanBlocks :
          (call'.op = "userMCodeExecute" /\ Args(call') = << state, b >>)
          => IF state = "STATE_CHECK_MODE"
             THEN UNCHANGED << fans_on, fans_linked, fan_off_tasks, port_level >>
             ELSE /\ (fan_get_state(FanOf(b)))' = (b.user_mcode = "Fan_On")
                  /\ \A i \in FanIndex \ {FanOf(b)} : BitsUntouched(i)
                  /\ \A p \in Ports :
                        port_level'[p] # port_level[p] => fans.port[FanOf(b)] = p
      ]_vars

\* ------------------------------------------------------------------ C19

\* C19: in every state the handlers reach, the on/off bit set has bits only
\* for fan indices below FANS_ENABLE whose port was claimed at load,
\* fan_get_state is false for every index from FANS_ENABLE up, and an output
\* that has been written is a port claimed by a fan below FANS_ENABLE.
C19_OnlyClaimedFans ==
    /\ \A i \in fans_on : i < FANS_ENABLE /\ fans.port[i] \in claimed
    /\ \A i \in FanIndex : i >= FANS_ENABLE => ~fan_get_state(i)
    /\ \A p \in Ports :
          port_level[p] # -1 => p \in claimed /\ \E i \in Fans : fans.port[i] = p

\* ------------------------------------------------------------------ C20

\* The output of fan i has been written at least once.
Written(i) == fans.port[i] \in Ports /\ port_level[fans.port[i]] # -1

\* Some fan has changed state: an output has been written.
Switched == \E p \in Ports : port_level[p] # -1

\* C20: in every state after a fan's first state change, the level last
\* written to the output of each assigned fan equals the fan's bit in the
\* on/off bit set, whatever events have run, and no two assigned fans have
\* the same port.
C20_OutputMatchesBit ==
    Switched =>
        /\ \A i \in Fans :
              (Assigned(i) /\ Written(i))
                  => (port_level[fans.port[i]] = IF i \in fans_on THEN 1 ELSE 0)
        /\ \A i, j \in Fans :
              (i # j /\ Assigned(i) /\ Assigned(j)) => fans.port[i] # fans.port[j]

====
